---- MODULE Spec2Model ----
(***************************************************************************)
(* Model of src/index.js: the password generator (generatePassword), the   *)
(* strength estimator (estimateStrength) and the form handlers that call   *)
(* them and persist the settings in localStorage.                          *)
(*                                                                         *)
(* A JavaScript string is a sequence of one-character strings.  A JS index *)
(* i (from 0) is position i + 1 of the sequence.                           *)
(*                                                                         *)
(*   Spec     one call of generatePassword, one random draw per step       *)
(*   SpecEst  one call of estimateStrength                                 *)
(*   SpecUI   the page: load, then the form's event handlers               *)
(***************************************************************************)
EXTENDS Integers, Sequences, FiniteSets, TLC

---------------------------------------------------------------------------
(* Bounds of the model *)

\* generatePassword is called with length in -1 .. MaxLength
MaxLength == 4

\* Math.random() returns one of 0/RandDen, 1/RandDen, ..., (RandDen-1)/RandDen
RandDen == 2

\* estimateStrength is called with strings of at most MaxPwLen characters,
\* each a repetition of a unit of at most MaxUnitLen characters
MaxPwLen == 16

MaxUnitLen == 4

\* the min and max attributes of the two length inputs (page markup)
LengthMin == 1

LengthMax == 1

---------------------------------------------------------------------------
(* Character sets, index.js lines 1-8 *)

LOWER == << "a", "b", "c", "d", "e", "f", "g", "h", "i", "j", "k", "l", "m",
            "n", "o", "p", "q", "r", "s", "t", "u", "v", "w", "x", "y", "z" >>

UPPER == << "A", "B", "C", "D", "E", "F", "G", "H", "I", "J", "K", "L", "M",
            "N", "O", "P", "Q", "R", "S", "T", "U", "V", "W", "X", "Y", "Z" >>

NUMBERS == << "0", "1", "2", "3", "4", "5", "6", "7", "8", "9" >>

SYMBOLS == << "!", "@", "#", "$", "%", "^", "&", "*", "(", ")", "-", "_", "=",
              "+", "[", "]", "{", "}", ";", ":", ",", ".", "<", ">", "/", "?" >>

SIMILAR == << "0", "O", "1", "l", "I", "|", "`", "'", "\"" >>

---------------------------------------------------------------------------
(* String primitives of JavaScript used by the code *)

\* s[i] for a JS index i
At(s, i) == s[i + 1]

\* the characters of s, as a set
Chars(s) == { s[k] : k \in 1..Len(s) }

\* SIMILAR.includes(ch)
Includes(s, ch) == \E k \in 1..Len(s) : s[k] = ch

\* s.split('').filter(ch => SIMILAR.includes(ch)): the test of the filter negated
FilterKeepSimilar(s) == SelectSeq(s, LAMBDA ch : Includes(SIMILAR, ch))

\* s.split('') with no filter
FilterNothing(s) == s

\* s.split('').filter(ch => !SIMILAR.includes(ch)), lines 107 and 120
FilterSimilar(s) == SelectSeq(s, LAMBDA ch : ~ Includes(SIMILAR, ch))

\* Array.from(new Set(a)), lines 107-108: the first occurrence of each
\* element, in the order of insertion
Dedupe(s) ==
    LET index == [ k \in 1..Len(s) |-> k ]
        first == SelectSeq(index, LAMBDA k : \A j \in 1..(k - 1) : s[j] # s[k])
    IN  [ n \in 1..Len(first) |-> s[first[n]] ]

\* pools.join('')
Join(ps) ==
    LET joined[n \in 0..Len(ps)] ==
            IF n = 0 THEN << >> ELSE joined[n - 1] \o ps[n]
    IN  joined[Len(ps)]

\* a.slice(0, end): a negative end counts from the end of a
Min(a, b) == IF a < b THEN a ELSE b

Max(a, b) == IF a > b THEN a ELSE b

SliceAll(a, end) == a

Slice(a, end) ==
    LET e == IF end < 0 THEN Max(Len(a) + end, 0) ELSE Min(end, Len(a))
    IN  SubSeq(a, 1, e)

\* Math.random(): the numerator of the value drawn
Rand == 0 .. (RandDen - 1)

\* Math.floor(Math.random() * n), Math.random() being r / RandDen
RandIndex(r, n) == (r * n) \div RandDen

---------------------------------------------------------------------------
(* generatePassword, index.js lines 82-141 *)

Lengths == (0 - 1) .. MaxLength

Settings ==
    [ length : Lengths,
      includeLower : BOOLEAN, includeUpper : BOOLEAN,
      includeNumbers : BOOLEAN, includeSymbols : BOOLEAN,
      excludeSimilarChars : BOOLEAN, guaranteeEachType : BOOLEAN ]

\* lines 95-99 with LOWER pushed whatever includeLower is
PoolsLowerAlways(o) ==
    << LOWER >>
    \o (IF o.includeUpper THEN << UPPER >> ELSE << >>)
    \o (IF o.includeNumbers THEN << NUMBERS >> ELSE << >>)
    \o (IF o.includeSymbols THEN << SYMBOLS >> ELSE << >>)

\* lines 95-99
Pools(o) ==
    (IF o.includeLower THEN << LOWER >> ELSE << >>)
    \o (IF o.includeUpper THEN << UPPER >> ELSE << >>)
    \o (IF o.includeNumbers THEN << NUMBERS >> ELSE << >>)
    \o (IF o.includeSymbols THEN << SYMBOLS >> ELSE << >>)

\* lines 93 and 101 without the test of the length
EarlyReturnNoLength(o) == Len(Pools(o)) = 0

\* lines 93 and 101: the two early returns of ''
EarlyReturn(o) == o.length <= 0 \/ Len(Pools(o)) = 0

\* lines 104-109: allowed before the fallback of line 112
Filtered(o) ==
    IF o.excludeSimilarChars
    THEN Dedupe(FilterSimilar(Join(Pools(o))))
    ELSE Join(Pools(o))

\* line 112
Allowed(o) == IF Len(Filtered(o)) = 0 THEN Join(Pools(o)) ELSE Filtered(o)

\* line 120: poolStr
PoolStr(pool, excl) == IF excl THEN FilterSimilar(pool) ELSE pool

\* lines 121-124 drawing from allowed instead of the class's own pool
SeedStepFromAllowed(buf, pool, excl) ==
    LET all == Join(<< LOWER, UPPER, NUMBERS, SYMBOLS >>)
    IN  { Append(buf, At(all, RandIndex(r, Len(all)))) : r \in Rand }

\* lines 119-124: the buffers one iteration of the seed loop can produce
SeedStep(buf, pool, excl) ==
    LET poolStr == PoolStr(pool, excl)
    IN  IF Len(poolStr) > 0
        THEN { Append(buf, At(poolStr, RandIndex(r, Len(poolStr)))) : r \in Rand }
        ELSE { buf }

\* lines 130-131: the buffers one iteration of the fill loop can produce
FillStep(buf, allowed) ==
    { Append(buf, At(allowed, RandIndex(r, Len(allowed)))) : r \in Rand }

\* line 137 as an assignment of one element instead of a swap
SwapOverwrite(buf, i, j) == [ buf EXCEPT ![i + 1] = At(buf, j) ]

\* line 137: [a[i], a[j]] = [a[j], a[i]]
Swap(buf, i, j) ==
    [ buf EXCEPT ![i + 1] = At(buf, j), ![j + 1] = At(buf, i) ]

\* lines 136-137: the buffers one iteration of the shuffle can produce
ShuffleStep(buf, i) == { Swap(buf, i, RandIndex(r, i + 1)) : r \in Rand }

\* line 129: the test of the fill loop
FillPending(buf, length) == Len(buf) < length

\* lines 118-125 on a set of buffers: every result of the whole seed loop,
\* after[n] being the buffers after the first n pools
SeedAll(S, ps, excl) ==
    LET after[n \in 0..Len(ps)] ==
            IF n = 0 THEN S
            ELSE UNION { SeedStep(b, ps[n], excl) : b \in after[n - 1] }
    IN  after[Len(ps)]

\* lines 129-132 on a set of buffers of one length: every result of the fill
\* loop, which runs at most length times
FillAll(S, allowed, length) ==
    LET after[n \in 0..Max(length, 0)] ==
            IF n = 0 THEN S
            ELSE IF \E b \in after[n - 1] : FillPending(b, length)
                 THEN UNION { FillStep(b, allowed) : b \in after[n - 1] }
                 ELSE after[n - 1]
    IN  after[Max(length, 0)]

\* lines 135-138 on a set of buffers of length n: every result of the shuffle,
\* at[i] being the buffers when the loop is at index i
ShuffleAll(S, n) ==
    LET at[i \in 0..Max(n - 1, 0)] ==
            IF i >= n - 1 THEN S
            ELSE UNION { ShuffleStep(b, i + 1) : b \in at[i + 1] }
    IN  at[0]

\* generatePassword(o): the set of strings the call can return, over every
\* outcome of its random draws
GeneratePassword(o) ==
    IF EarlyReturn(o) THEN { << >> }
    ELSE LET seeded == IF o.guaranteeEachType
                       THEN SeedAll({ << >> }, Pools(o), o.excludeSimilarChars)
                       ELSE { << >> }
             filled == FillAll(seeded, Allowed(o), o.length)
             n      == Len(CHOOSE b \in filled : TRUE)
         IN  { Slice(b, o.length) : b \in ShuffleAll(filled, n) }

---------------------------------------------------------------------------
(* estimateStrength, index.js lines 144-167 *)

\* the argument left out: estimateStrength()
undefined == << "undefined" >>

\* !pw taken as false: no early return
FalsyNever(x) == FALSE

\* !pw, line 145: true of undefined and of ''
Falsy(x) == x = undefined \/ x = << >>

\* /[a-z]/, line 149
ClassAZLower ==
    { "a", "b", "c", "d", "e", "f", "g", "h", "i", "j", "k", "l", "m",
      "n", "o", "p", "q", "r", "s", "t", "u", "v", "w", "x", "y", "z" }

\* /[A-Z]/, line 150
ClassAZUpper ==
    { "A", "B", "C", "D", "E", "F", "G", "H", "I", "J", "K", "L", "M",
      "N", "O", "P", "Q", "R", "S", "T", "U", "V", "W", "X", "Y", "Z" }

\* /[0-9]/, line 151
Class09 == { "0", "1", "2", "3", "4", "5", "6", "7", "8", "9" }

\* the character class of line 152
ClassSymbol ==
    { "!", "@", "#", "$", "%", "^", "&", "*", "(", ")", "-", "_", "=", "+",
      "[", "]", "{", "}", ";", ":", ",", ".", "<", ">", "/", "?" }

\* re.test(x): some character of x is in the class
Test(class, x) == \E k \in 1..Len(x) : x[k] \in class

\* lines 148-152
PoolSize(x) ==
    (IF Test(ClassAZLower, x) THEN 26 ELSE 0)
    + (IF Test(ClassAZUpper, x) THEN 26 ELSE 0)
    + (IF Test(Class09, x) THEN 10 ELSE 0)
    + (IF Test(ClassSymbol, x) THEN 32 ELSE 0)

\* one bit, in the unit of Log2: a millionth of a bit
Bit == 1000000

\* Math.log2(n) in millionths of a bit, rounded down, for the sums of 26, 26, 10
\* and 32 that poolSize can be; Math.log2(32) is exactly 5
Log2(n) ==
    CASE n = 10 -> 3321928
      [] n = 26 -> 4700439
      [] n = 32 -> 5000000
      [] n = 36 -> 5169925
      [] n = 42 -> 5392317
      [] n = 52 -> 5700439
      [] n = 58 -> 5857980
      [] n = 62 -> 5954196
      [] n = 68 -> 6087462
      [] n = 84 -> 6392317
      [] n = 94 -> 6554588

\* line 155, in millionths of a bit
Bits(x) == IF PoolSize(x) > 0 THEN Len(x) * Log2(PoolSize(x)) ELSE 0

\* lines 158-163 with >= for >
ScoreAtLeast(bits) ==
    IF bits >= 80 * Bit THEN 4
    ELSE IF bits >= 60 * Bit THEN 3
    ELSE IF bits >= 40 * Bit THEN 2
    ELSE IF bits >= 20 * Bit THEN 1
    ELSE 0

\* lines 158-163
Score(bits) ==
    IF bits > 80 * Bit THEN 4
    ELSE IF bits > 60 * Bit THEN 3
    ELSE IF bits > 40 * Bit THEN 2
    ELSE IF bits > 20 * Bit THEN 1
    ELSE 0

\* line 165
labels == << "Very weak", "Weak", "Okay", "Strong", "Very strong" >>

\* lines 144-167
EstimateStrength(x) ==
    IF Falsy(x) THEN [ score |-> 0, label |-> "Too short" ]
    ELSE LET score == Score(Bits(x))
         IN  [ score |-> score, label |-> At(labels, score) ]

---------------------------------------------------------------------------
(* State *)

VARIABLES
    \* one call of generatePassword
    options,        \* its argument
    pools,          \* line 95
    allowed,        \* line 104
    passwordChars,  \* line 115
    p,              \* index in pools of the pool the seed loop is at (line 118)
    i,              \* the shuffle's index (line 135)
    ret,            \* the value returned
    pc,             \* "idle", "seed", "fill", "shuffle" or "done"
    draws,          \* number of calls of Math.random() at lines 122, 130 and 136
    usedFallback,   \* line 112 replaced allowed
    skippedSeed,    \* line 121 found an empty poolStr
    \* one call of estimateStrength
    pw,             \* its argument
    st,             \* the value returned
    \* the page
    form,           \* the value / checked state of the eight form controls
    localStorage,   \* the item "passwordSettings"
    passwordOutput, \* passwordOutput.value
    strengthFill,   \* strengthFill.style
    strengthText,   \* strengthText.textContent
    event           \* the handler that ran last

genVars == << options, pools, allowed, passwordChars, p, i, ret, pc, draws,
              usedFallback, skippedSeed >>

estVars == << pw, st >>

uiVars == << form, localStorage, passwordOutput, strengthFill, strengthText,
             event >>

vars == << genVars, estVars, uiVars >>

NoOptions ==
    [ length |-> 0,
      includeLower |-> FALSE, includeUpper |-> FALSE,
      includeNumbers |-> FALSE, includeSymbols |-> FALSE,
      excludeSimilarChars |-> FALSE, guaranteeEachType |-> FALSE ]

NoDraws == [ seed |-> 0, fill |-> 0, swap |-> 0 ]

GenIdle ==
    /\ options = NoOptions
    /\ pools = << >>
    /\ allowed = << >>
    /\ passwordChars = << >>
    /\ p = 0
    /\ i = 0
    /\ ret = << >>
    /\ pc = "idle"
    /\ draws = NoDraws
    /\ usedFallback = FALSE
    /\ skippedSeed = FALSE

EstIdle ==
    /\ pw = << >>
    /\ st = [ score |-> 0, label |-> "" ]

UIIdle ==
    /\ form = NoOptions
    /\ localStorage = << >>
    /\ passwordOutput = << >>
    /\ strengthFill = << >>
    /\ strengthText = << >>
    /\ event = ""

---------------------------------------------------------------------------
(* One call of generatePassword, a step per random draw *)

\* lines 82-115: entry, the early returns, pools, allowed, the empty buffer
Call(o) ==
    /\ pc = "idle"
    /\ options' = o
    /\ draws' = NoDraws
    /\ skippedSeed' = FALSE
    /\ passwordChars' = << >>
    /\ ret' = << >>
    /\ p' = 1
    /\ i' = 0
    /\ IF EarlyReturn(o)
       THEN /\ pc' = "done"
            /\ pools' = IF o.length <= 0 THEN << >> ELSE Pools(o)
            /\ allowed' = << >>
            /\ usedFallback' = FALSE
       ELSE /\ pc' = IF o.guaranteeEachType THEN "seed" ELSE "fill"
            /\ pools' = Pools(o)
            /\ allowed' = Allowed(o)
            /\ usedFallback' = (Len(Filtered(o)) = 0)
    /\ UNCHANGED << estVars, uiVars >>

\* lines 118-125: one iteration of the seed loop
SeedPick ==
    /\ pc = "seed"
    /\ p <= Len(pools)
    /\ LET drawn == Len(PoolStr(pools[p], options.excludeSimilarChars)) > 0
       IN  /\ passwordChars' \in
                 SeedStep(passwordChars, pools[p], options.excludeSimilarChars)
           /\ draws' = IF drawn THEN [ draws EXCEPT !.seed = @ + 1 ] ELSE draws
           /\ skippedSeed' = (skippedSeed \/ ~ drawn)
    /\ p' = p + 1
    /\ UNCHANGED << options, pools, allowed, i, ret, pc, usedFallback >>
    /\ UNCHANGED << estVars, uiVars >>

\* line 118: the seed loop ends
SeedEnd ==
    /\ pc = "seed"
    /\ p > Len(pools)
    /\ pc' = "fill"
    /\ UNCHANGED << options, pools, allowed, passwordChars, p, i, ret, draws,
                    usedFallback, skippedSeed >>
    /\ UNCHANGED << estVars, uiVars >>

\* lines 129-132: one iteration of the fill loop
FillPick ==
    /\ pc = "fill"
    /\ FillPending(passwordChars, options.length)
    /\ passwordChars' \in FillStep(passwordChars, allowed)
    /\ draws' = [ draws EXCEPT !.fill = @ + 1 ]
    /\ UNCHANGED << options, pools, allowed, p, i, ret, pc, usedFallback,
                    skippedSeed >>
    /\ UNCHANGED << estVars, uiVars >>

\* lines 129 and 135: the fill loop ends, the shuffle starts at the last index
FillEnd ==
    /\ pc = "fill"
    /\ ~ FillPending(passwordChars, options.length)
    /\ pc' = "shuffle"
    /\ i' = Len(passwordChars) - 1
    /\ UNCHANGED << options, pools, allowed, passwordChars, p, ret, draws,
                    usedFallback, skippedSeed >>
    /\ UNCHANGED << estVars, uiVars >>

\* lines 135-138: one iteration of the shuffle
ShuffleSwap ==
    /\ pc = "shuffle"
    /\ i > 0
    /\ passwordChars' \in ShuffleStep(passwordChars, i)
    /\ draws' = [ draws EXCEPT !.swap = @ + 1 ]
    /\ i' = i - 1
    /\ UNCHANGED << options, pools, allowed, p, ret, pc, usedFallback,
                    skippedSeed >>
    /\ UNCHANGED << estVars, uiVars >>

\* lines 135 and 140: the shuffle ends, the call returns
Return ==
    /\ pc = "shuffle"
    /\ ~ (i > 0)
    /\ ret' = Slice(passwordChars, options.length)
    /\ pc' = "done"
    /\ UNCHANGED << options, pools, allowed, passwordChars, p, i, draws,
                    usedFallback, skippedSeed >>
    /\ UNCHANGED << estVars, uiVars >>

Init == GenIdle /\ EstIdle /\ UIIdle

Next ==
    \/ \E o \in Settings : Call(o)
    \/ SeedPick
    \/ SeedEnd
    \/ FillPick
    \/ FillEnd
    \/ ShuffleSwap
    \/ Return

Spec == Init /\ [][Next]_vars

\* generatePassword(o) for every argument of the model, computed once
Outcomes == [ o \in Settings |-> GeneratePassword(o) ]

\* the steps and the set-valued form of generatePassword agree
StepsAgree == pc = "done" => ret \in Outcomes[options]

---------------------------------------------------------------------------
(* One call of estimateStrength *)

\* characters of the arguments: one of each class, one of no class
TestChars == { "a", "A", "1", "!", "|" }

Units == UNION { [ 1..m -> TestChars ] : m \in 1..MaxUnitLen }

\* the first n characters of u u u ...
Repeat(u, n) == [ k \in 1..n |-> u[((k - 1) % Len(u)) + 1] ]

EstInputs == { undefined } \cup { Repeat(u, n) : u \in Units, n \in 0..MaxPwLen }

NoResult == [ score |-> 0, label |-> "" ]

\* line 186, or any other caller: st = estimateStrength(pw)
Estimate ==
    /\ st = NoResult
    /\ st' = EstimateStrength(pw)
    /\ UNCHANGED << pw, genVars, uiVars >>

InitEst ==
    /\ GenIdle
    /\ UIIdle
    /\ pw \in EstInputs
    /\ st = NoResult

NextEst == Estimate

SpecEst == InitEst /\ [][NextEst]_vars

---------------------------------------------------------------------------
(* The page: index.js lines 10-79 and 169-223 *)

\* the six checkboxes of line 42
Checkboxes == { "lowercase", "uppercase", "numbers", "symbols",
                "excludeSimilar", "guaranteeEach" }

\* what the slider can be set to
SliderValues == LengthMin .. LengthMax

\* the states of the form controls: the values of the two length inputs and
\* the checked state of the six checkboxes
Forms ==
    [ lengthRange : SliderValues, lengthNumber : SliderValues,
      lowercase : BOOLEAN, uppercase : BOOLEAN, numbers : BOOLEAN,
      symbols : BOOLEAN, excludeSimilar : BOOLEAN, guaranteeEach : BOOLEAN ]

\* lines 64-74, and the same object built at lines 171-179
GetSettings(f) ==
    [ length |-> f.lengthRange,
      includeLower |-> f.lowercase, includeUpper |-> f.uppercase,
      includeNumbers |-> f.numbers, includeSymbols |-> f.symbols,
      excludeSimilarChars |-> f.excludeSimilar,
      guaranteeEachType |-> f.guaranteeEach ]

FormSettings == { GetSettings(f) : f \in Forms }

\* generatePassword(o) for every settings value of the form, computed once
FormOutcomes == [ o \in FormSettings |-> GeneratePassword(o) ]

\* the text of a number from 0 to 99 and of a boolean in JSON
Digit == << "0", "1", "2", "3", "4", "5", "6", "7", "8", "9" >>

NumText(n) ==
    IF n < 10 THEN << At(Digit, n) >>
    ELSE << At(Digit, n \div 10), At(Digit, n % 10) >>

BoolText(b) == IF b THEN "true" ELSE "false"

DigitValue(d) == CHOOSE n \in 0..9 : At(Digit, n) = d

TextNum(t) ==
    IF Len(t) = 1 THEN DigitValue(t[1])
    ELSE 10 * DigitValue(t[1]) + DigitValue(t[2])

TextBool(t) == t = "true"

\* JSON.stringify(settings), line 206: the members in the order of lines 65-73
Stringify(o) ==
    << << "length", NumText(o.length) >>,
       << "includeLower", BoolText(o.includeLower) >>,
       << "includeUpper", BoolText(o.includeUpper) >>,
       << "includeNumbers", BoolText(o.includeNumbers) >>,
       << "includeSymbols", BoolText(o.includeSymbols) >>,
       << "excludeSimilarChars", BoolText(o.excludeSimilarChars) >>,
       << "guaranteeEachType", BoolText(o.guaranteeEachType) >> >>

\* the value of member name of the JSON text j
Member(j, name) == (CHOOSE k \in 1..Len(j) : j[k][1] = name)

\* JSON.parse(saved), line 213
Parse(j) ==
    [ length |-> TextNum(j[Member(j, "length")][2]),
      includeLower |-> TextBool(j[Member(j, "includeLower")][2]),
      includeUpper |-> TextBool(j[Member(j, "includeUpper")][2]),
      includeNumbers |-> TextBool(j[Member(j, "includeNumbers")][2]),
      includeSymbols |-> TextBool(j[Member(j, "includeSymbols")][2]),
      excludeSimilarChars |-> TextBool(j[Member(j, "excludeSimilarChars")][2]),
      guaranteeEachType |-> TextBool(j[Member(j, "guaranteeEachType")][2]) ]

\* localStorage.getItem of an item never set
null == << >>

\* lines 209-223: the form after loadSettings, from the form f of the markup
LoadSettings(f, saved) ==
    IF saved = null THEN f
    ELSE LET settings == Parse(saved)
         IN  [ lengthRange |-> settings.length,
               lengthNumber |-> settings.length,
               lowercase |-> settings.includeLower,
               uppercase |-> settings.includeUpper,
               numbers |-> settings.includeNumbers,
               symbols |-> settings.includeSymbols,
               excludeSimilar |-> settings.excludeSimilarChars,
               guaranteeEach |-> settings.guaranteeEachType ]

\* lines 187-199: strengthFill.style
FillStyle(s) ==
    [ width |-> s.score * 25,
      background |-> IF s.score <= 1 THEN "red/orange"
                     ELSE IF s.score = 2 THEN "yellow"
                     ELSE IF s.score = 3 THEN "greenish"
                     ELSE "cyan/purple" ]

\* line 201: strengthText.textContent
TextContent(pwd, s) ==
    IF pwd # << >> THEN << s.label, s.score * 25 >> ELSE << "-" >>

\* lines 170-202 on the form f, the new state of the three outputs
GenerateAndShow(f) ==
    \E pwd \in FormOutcomes[GetSettings(f)] :
        /\ passwordOutput' = pwd
        /\ strengthFill' = FillStyle(EstimateStrength(pwd))
        /\ strengthText' = TextContent(pwd, EstimateStrength(pwd))

\* lines 204-207 on the form f
SaveSettings(f) == localStorage' = Stringify(GetSettings(f))

\* lines 26-30: the slider is moved to v
RangeInput(v) ==
    /\ form' = [ form EXCEPT !.lengthRange = v, !.lengthNumber = v ]
    /\ SaveSettings(form')
    /\ GenerateAndShow(form')
    /\ event' = "lengthRange input"
    /\ UNCHANGED << genVars, estVars >>

\* lines 31-39: the number t is typed in the number input and clamped to the
\* min and max of the input (a text that is no number is clamped to the min
\* as a number below it is)
NumberInput(t) ==
    LET v1 == IF t < LengthMin THEN LengthMin ELSE t
        v  == IF v1 > LengthMax THEN LengthMax ELSE v1
    IN  /\ form' = [ form EXCEPT !.lengthNumber = v, !.lengthRange = v ]
        /\ SaveSettings(form')
        /\ GenerateAndShow(form')
        /\ event' = "lengthNumber input"
        /\ UNCHANGED << genVars, estVars >>

\* lines 42-44: the checkbox el is toggled; the listener is generateAndShow,
\* the third argument of addEventListener is its options
Change(el) ==
    /\ form' = [ form EXCEPT ![el] = ~ @ ]
    /\ GenerateAndShow(form')
    /\ event' = "change"
    /\ UNCHANGED localStorage
    /\ UNCHANGED << genVars, estVars >>

\* line 47: click on regenBtn; the listener is generateAndShow
RegenClick ==
    /\ GenerateAndShow(form)
    /\ event' = "click"
    /\ UNCHANGED << form, localStorage >>
    /\ UNCHANGED << genVars, estVars >>

\* lines 11-23 and 78-79: the page is loaded with the item absent or as an
\* earlier visit saved it; loadSettings, then generateAndShow
InitUI ==
    /\ GenIdle
    /\ EstIdle
    /\ localStorage \in { null } \cup { Stringify(o) : o \in FormSettings }
    /\ \E markup \in Forms : form = LoadSettings(markup, localStorage)
    /\ \E pwd \in FormOutcomes[GetSettings(form)] :
          /\ passwordOutput = pwd
          /\ strengthFill = FillStyle(EstimateStrength(pwd))
          /\ strengthText = TextContent(pwd, EstimateStrength(pwd))
    /\ event = "load"

NextUI ==
    \/ \E v \in SliderValues : RangeInput(v)
    \/ \E t \in (LengthMin - 1) .. (LengthMax + 1) : NumberInput(t)
    \/ \E el \in Checkboxes : Change(el)
    \/ RegenClick

SpecUI == InitUI /\ [][NextUI]_vars

---------------------------------------------------------------------------
(* Vocabulary of the properties *)

Classes == { "lower", "upper", "numbers", "symbols" }

\* the alphabet of a class, as a set
Alphabet(c) ==
    CASE c = "lower" -> Chars(LOWER)
      [] c = "upper" -> Chars(UPPER)
      [] c = "numbers" -> Chars(NUMBERS)
      [] c = "symbols" -> Chars(SYMBOLS)

SimilarSet == Chars(SIMILAR)

\* the alphabet of a class with the similar characters removed on request
FilteredAlphabet(c, excl) ==
    IF excl THEN Alphabet(c) \ SimilarSet ELSE Alphabet(c)

\* the classes whose flag is true in the settings o
Enabled(o) ==
    { c \in Classes :
        \/ c = "lower" /\ o.includeLower
        \/ c = "upper" /\ o.includeUpper
        \/ c = "numbers" /\ o.includeNumbers
        \/ c = "symbols" /\ o.includeSymbols }

\* the classes that have a character in the string x
ClassesIn(x) == { c \in Classes : Chars(x) \cap Alphabet(c) # {} }

Returned == pc = "done"

---------------------------------------------------------------------------
(* Properties of generatePassword, under Spec *)

\* C1: with length L > 0 and at least one class enabled, the string returned
\* has exactly L characters, whatever the other flags and the draws are, also
\* when guaranteeEachType is set and more classes are enabled than L.
C1_LengthExact ==
    (Returned /\ options.length > 0 /\ Enabled(options) # {})
        => Len(ret) = options.length

\* a call with guaranteeEachType and more classes than characters has returned
C1_Witness ==
    /\ Returned
    /\ options.guaranteeEachType
    /\ options.length > 0
    /\ Cardinality(Enabled(options)) > options.length
    /\ Len(ret) = options.length

\* C2: with length <= 0 or no class enabled the call returns '' and has drawn
\* no random number.
C2_EmptyNoDraw ==
    (Returned /\ (options.length <= 0 \/ Enabled(options) = {}))
        => (ret = << >> /\ draws = NoDraws)

\* a call with length <= 0, classes enabled and guaranteeEachType has returned
C2_Witness ==
    /\ Returned
    /\ options.length <= 0
    /\ Enabled(options) # {}
    /\ options.guaranteeEachType
    /\ ret = << >>
    /\ draws = NoDraws

\* C3: with guaranteeEachType and no more classes enabled than the length, the
\* string returned has a character of the (filtered) alphabet of every enabled
\* class.
C3_EachClassPresent ==
    (Returned /\ options.guaranteeEachType /\ options.length > 0
              /\ Cardinality(Enabled(options)) <= options.length)
        => \A c \in Enabled(options) :
              Chars(ret) \cap FilteredAlphabet(c, options.excludeSimilarChars) # {}

\* a call with the four classes, length 4 and both options set has returned,
\* the shuffle having moved the seed of the last class to the front
C3_Witness ==
    /\ Returned
    /\ options.guaranteeEachType
    /\ options.excludeSimilarChars
    /\ Enabled(options) = Classes
    /\ options.length = 4
    /\ ClassesIn(ret) = Classes
    /\ draws.swap = 3
    /\ ret[1] \in Alphabet("symbols")

\* C4: with excludeSimilarChars, length > 0 and a class enabled, the string
\* returned has no similar character, from a seed or from the fill.
C4_NoSimilar ==
    (Returned /\ options.excludeSimilarChars /\ options.length > 0
              /\ Enabled(options) # {})
        => Chars(ret) \cap SimilarSet = {}

\* a call with excludeSimilarChars that seeded a digit and filled has returned
C4_Witness ==
    /\ Returned
    /\ options.excludeSimilarChars
    /\ options.guaranteeEachType
    /\ Enabled(options) = { "numbers" }
    /\ draws.seed = 1
    /\ draws.fill = 2
    /\ Chars(ret) \subseteq (Alphabet("numbers") \ SimilarSet)

\* C5: every character of the string returned is of the alphabet of an
\* enabled class.
C5_OnlyEnabledClasses ==
    Returned => \A k \in 1..Len(ret) :
                   \E c \in Enabled(options) : ret[k] \in Alphabet(c)

\* a call with only includeLower has returned three lowercase letters
C5_Witness ==
    /\ Returned
    /\ Enabled(options) = { "lower" }
    /\ Len(ret) = 3
    /\ Chars(ret) \subseteq Alphabet("lower")

\* C8: with guaranteeEachType and more classes enabled (C) than the length
\* L >= 1, there is no fill draw, the buffer is C seeds, one of each enabled
\* class, the string returned is the first L characters of the shuffled
\* buffer, they are of L distinct classes, and C - L enabled classes are absent.
C8_TruncatedSeeds ==
    (Returned /\ options.guaranteeEachType /\ options.length >= 1
              /\ Cardinality(Enabled(options)) > options.length)
        => /\ draws.fill = 0
           /\ Len(passwordChars) = Cardinality(Enabled(options))
           /\ \A c \in Enabled(options) :
                 Cardinality({ k \in 1..Len(passwordChars) :
                     passwordChars[k] \in
                         FilteredAlphabet(c, options.excludeSimilarChars) }) = 1
           /\ ret = SubSeq(passwordChars, 1, options.length)
           /\ Cardinality(ClassesIn(ret)) = options.length
           /\ \A k \in 1..Len(ret) :
                 Cardinality(ClassesIn(<< ret[k] >>)) = 1
           /\ Cardinality(Enabled(options) \ ClassesIn(ret))
                 = Cardinality(Enabled(options)) - options.length

\* a call with the four classes and length 2 has returned
C8_Witness ==
    /\ Returned
    /\ options.guaranteeEachType
    /\ Enabled(options) = Classes
    /\ options.length = 2
    /\ Len(ret) = 2
    /\ Len(passwordChars) = 4

\* C10: for every non-empty combination of classes the filtered pool and the
\* filtered alphabet of every enabled class are non-empty; no call takes the
\* fallback of line 112 or skips a seed at line 121.
C10_NoFallback ==
    (pc # "idle" /\ pools # << >>)
        => /\ ~ usedFallback
           /\ ~ skippedSeed
           /\ (UNION { Alphabet(c) : c \in Enabled(options) }) \ SimilarSet # {}
           /\ \A c \in Enabled(options) : Alphabet(c) \ SimilarSet # {}
           /\ options.excludeSimilarChars
                 => Chars(allowed) \cap SimilarSet = {}

\* a call with only the symbols and both options has seeded and returned
C10_Witness ==
    /\ Returned
    /\ options.excludeSimilarChars
    /\ options.guaranteeEachType
    /\ Enabled(options) = { "symbols" }
    /\ draws.seed = 1
    /\ ~ usedFallback
    /\ ~ skippedSeed
    /\ Len(ret) > 0

---------------------------------------------------------------------------
(* Exact integers, as sequences of four decimal digits, lowest first *)

\* x * m for a number m from 0 to 1024
Times(x, m) ==
    LET carry[k \in 0..Len(x)] ==
            IF k = 0 THEN 0 ELSE (x[k] * m + carry[k - 1]) \div 10000
        low == [ k \in 1..Len(x) |-> (x[k] * m + carry[k - 1]) % 10000 ]
    IN  IF carry[Len(x)] = 0 THEN low ELSE Append(low, carry[Len(x)])

\* b to the power n
Power(b, n) ==
    LET pow[k \in 0..n] == IF k = 0 THEN << 1 >> ELSE Times(pow[k - 1], b)
    IN  pow[n]

\* x > y, neither with a leading zero
Greater(x, y) ==
    \/ Len(x) > Len(y)
    \/ /\ Len(x) = Len(y)
       /\ \E k \in 1..Len(x) :
             /\ x[k] > y[k]
             /\ \A j \in (k + 1)..Len(x) : x[j] = y[j]

\* 2^t for a multiple t of 10
TwoTo(t) == Power(1024, t \div 10)

---------------------------------------------------------------------------
(* Properties of estimateStrength, under SpecEst *)

Estimated == st # NoResult

\* 26 for a lowercase letter in x, 26 for an uppercase letter, 10 for a digit,
\* 32 for a character of the symbol set
ClassPoolSize(x) ==
    (IF "lower" \in ClassesIn(x) THEN 26 ELSE 0)
    + (IF "upper" \in ClassesIn(x) THEN 26 ELSE 0)
    + (IF "numbers" \in ClassesIn(x) THEN 10 ELSE 0)
    + (IF "symbols" \in ClassesIn(x) THEN 32 ELSE 0)

\* n * log2(size) > t, exactly: size^n > 2^t
BitsExceed(size, n, t) == size > 0 /\ Greater(Power(size, n), TwoTo(t))

\* the number of the thresholds 20, 40, 60, 80 that the bits exceed
ExactScore(x) ==
    Cardinality({ t \in { 20, 40, 60, 80 } :
                    BitsExceed(ClassPoolSize(x), Len(x), t) })

\* C6: for a non-empty string the score is 4, 3, 2, 1 or 0 as
\* length * log2(poolSize) exceeds 80, 60, 40, 20 or none, poolSize being the
\* sum of 26, 26, 10, 32 over the classes present; the label is the entry of
\* that score; twelve lowercase letters are 'Okay', twelve characters of the
\* four classes are 'Strong'.
C6_ScoreByBits ==
    (Estimated /\ pw # undefined /\ pw # << >>)
        => /\ st.score = ExactScore(pw)
           /\ st.label = labels[st.score + 1]
           /\ pw = Repeat(<< "a" >>, 12) => st = [ score |-> 2, label |-> "Okay" ]
           /\ pw = Repeat(<< "a", "A", "1", "!" >>, 12)
                 => st = [ score |-> 3, label |-> "Strong" ]

\* estimateStrength("aA1!aA1!aA1!") has returned
C6_Witness ==
    /\ Estimated
    /\ pw = << "a", "A", "1", "!", "a", "A", "1", "!", "a", "A", "1", "!" >>
    /\ st.score = 3

\* C7: the result is always valid: {0, 'Too short'} for the empty or absent
\* argument; for a non-empty string a score from 0 to 4 and one of the five
\* labels, never 'Too short'; score 0, 'Very weak' for a string with no
\* character of the four classes.
C7_AlwaysValid ==
    Estimated =>
        IF pw = undefined \/ pw = << >>
        THEN st = [ score |-> 0, label |-> "Too short" ]
        ELSE /\ st.score \in 0..4
             /\ st.label \in { "Very weak", "Weak", "Okay", "Strong", "Very strong" }
             /\ ClassesIn(pw) = {} => st = [ score |-> 0, label |-> "Very weak" ]

\* estimateStrength has returned for a string of characters of no class
C7_Witness ==
    /\ Estimated
    /\ pw = << "|", "|", "|" >>
    /\ st = [ score |-> 0, label |-> "Very weak" ]

---------------------------------------------------------------------------
(* Property of the page, under SpecUI *)

\* C9: after every event of the form (slider input, number input, change of a
\* checkbox, click on regenerate) the settings stored in localStorage are the
\* settings of the form.
C9_StoredIsCurrent ==
    event # "load"
        => /\ localStorage # null
           /\ Parse(localStorage) = GetSettings(form)

====
